---- MODULE Spec2Model ----
(***************************************************************************)
(* weakable_unique_ptr / unique_weak_ptr (src/weakable_unique_ptr.hpp).    *)
(*                                                                         *)
(* The heap of control blocks, a fixed set of Owner variables and a fixed  *)
(* set of Observer variables of a single-threaded caller.  One action per  *)
(* public operation; an operation runs to completion, temporaries          *)
(* included, so every state is an operation boundary.  What an operation   *)
(* does, in program order, is the log S.lg it builds while it runs.        *)
(*                                                                         *)
(* A second specification, SpecRace, runs two threads that copy and        *)
(* destroy Observers of one control block, with ++ref_count and            *)
(* --ref_count split into the load and the store the compiler emits.       *)
(*                                                                         *)
(* Object references are 1..MaxObj, 0 is the null pointer.  Control blocks *)
(* are numbered in allocation order, 0 is the empty intrusive_ptr; an      *)
(* address is never reused, so a dangling intrusive_ptr would be visible.  *)
(***************************************************************************)
EXTENDS Integers, Sequences, FiniteSets, TLC

\* Bounds of the model.
MaxObj == 2
MaxCells == 2
MaxCount == 5

Owners == {1, 2}
Observers == {1, 2}
Objs == 1..MaxObj
Deleters == {"dflt", "cust"}
Threads == {1, 2}

VARIABLES
    owner,      \* Owner variable -> [alive, px, pd, pc]
    weak,       \* Observer variable -> [alive, pc]
    cells,      \* heap: sequence of control blocks [st, ref_count, px]
    handed,     \* object -> number of times the caller handed it to an Owner
    deleted,    \* object -> number of destroy-policy invocations on it
    released,   \* objects returned by release() and still with the caller
    how,        \* history: Owner variable -> the last operation applied to it:
                \* "default" (constructed empty), "reset", "other"; "none" if dead
    snap,       \* history: Observer variable -> the Owner snapshot its binding stems from
    thread      \* thread -> [at, reg, pc, raced]: where it is in ++/--ref_count, the
                \* value it loaded, the pc of its own Observer (0: it has none), and
                \* history: it stored over a count that was not the one it had loaded

vars == <<owner, weak, cells, handed, deleted, released, how, snap, thread>>

----------------------------------------------------------------------------
\* Values

DeadOwner == [alive |-> FALSE, px |-> 0, pd |-> "dflt", pc |-> 0]
DeadWeak == [alive |-> FALSE, pc |-> 0]
NoSnap == [o |-> 0, fresh |-> FALSE]
IdleThread == [at |-> "idle", reg |-> 0, pc |-> 0, raced |-> FALSE]

Ev(e, obj, c, d) == [ev |-> e, obj |-> obj, cell |-> c, by |-> d]

----------------------------------------------------------------------------
\* weakable_unique_ptr_control_block

\* Mutant: the constructor forgets px( p ).
control_block_NoStore(cs, p) == Append(cs, [st |-> "live", ref_count |-> 0, px |-> 0])

\* new control_block( p ): ref_count( 0 ), px( p ), at a fresh address
control_block(cs, p) == Append(cs, [st |-> "live", ref_count |-> 0, px |-> p])

\* control_block::reset()
control_block_reset(cs, c) == [cs EXCEPT ![c].px = 0]

\* control_block::get()
control_block_get(cs, c) == cs[c].px

\* ++p->ref_count
intrusive_ptr_add_ref(cs, c) == [cs EXCEPT ![c].ref_count = @ + 1]

\* Mutant: post-decrement, if ( p->ref_count-- == 0 ) delete p.
intrusive_ptr_release_PostDec(cs, c) ==
    IF cs[c].ref_count = 0
    THEN [cs EXCEPT ![c].st = "freed"]
    ELSE [cs EXCEPT ![c].ref_count = @ - 1]

\* if ( --p->ref_count == 0 ) delete p
intrusive_ptr_release(cs, c) ==
    IF cs[c].ref_count - 1 = 0
    THEN [cs EXCEPT ![c].ref_count = 0, ![c].st = "freed"]
    ELSE [cs EXCEPT ![c].ref_count = @ - 1]

----------------------------------------------------------------------------
\* A running operation works on S = [ow, wk, cs, del, lg]: the Owner and
\* Observer variables, the heap, the destroy-policy counts and the log.

Start == [ow |-> owner, wk |-> weak, cs |-> cells, del |-> deleted, lg |-> <<>>]

\* intrusive_ptr<control_block>( p ) taking a raw pointer, or copied from c
PcAcquire(S, c) ==
    IF c = 0 THEN S ELSE [S EXCEPT !.cs = intrusive_ptr_add_ref(@, c)]

\* ~intrusive_ptr<control_block>() of a member pc holding c
PcDrop(S, c) ==
    IF c = 0 THEN S
    ELSE LET cs2 == intrusive_ptr_release(S.cs, c)
         IN  [S EXCEPT !.cs = cs2,
                       !.lg = IF cs2[c].st = "freed"
                              THEN Append(@, Ev("free", 0, c, "-")) ELSE @]

\* pc( new control_block( p ) )
PcNew(S, p) ==
    LET n == Len(S.cs) + 1
        S1 == [S EXCEPT !.cs = control_block(@, p),
                        !.lg = Append(@, Ev("alloc", p, n, "-"))]
    IN  PcAcquire(S1, n)

\* Mutant: the destructor destroys the object and leaves the control block as it is.
OwnerDtor_NoClear(S, t) ==
    LET S1 == IF t.px # 0
              THEN [S EXCEPT !.del[t.px] = @ + 1,
                             !.lg = Append(@, Ev("delete", t.px, t.pc, t.pd))]
              ELSE S
    IN  PcDrop(S1, t.pc)

\* Mutant: the destructor clears the control block before it destroys the object.
OwnerDtor_ClearFirst(S, t) ==
    LET S1 == IF t.pc # 0
              THEN [S EXCEPT !.cs = control_block_reset(@, t.pc),
                             !.lg = Append(@, Ev("clear", 0, t.pc, "-"))]
              ELSE S
        S2 == IF t.px # 0
              THEN [S1 EXCEPT !.del[t.px] = @ + 1,
                              !.lg = Append(@, Ev("delete", t.px, t.pc, t.pd))]
              ELSE S1
    IN  PcDrop(S2, t.pc)

\* Mutant: shared_ptr-like, the object is destroyed only when no Observer is
\* left on its control block.
OwnerDtor_WhenUnobserved(S, t) ==
    LET S1 == IF t.px # 0 /\ (t.pc = 0 \/ S.cs[t.pc].ref_count = 1)
              THEN [S EXCEPT !.del[t.px] = @ + 1,
                             !.lg = Append(@, Ev("delete", t.px, t.pc, t.pd))]
              ELSE S
        S2 == IF t.pc # 0
              THEN [S1 EXCEPT !.cs = control_block_reset(@, t.pc),
                              !.lg = Append(@, Ev("clear", 0, t.pc, "-"))]
              ELSE S1
    IN  PcDrop(S2, t.pc)

\* ~weakable_unique_ptr() of the Owner value t, then the destruction of its members
OwnerDtor(S, t) ==
    LET S1 == IF t.px # 0
              THEN [S EXCEPT !.del[t.px] = @ + 1,
                             !.lg = Append(@, Ev("delete", t.px, t.pc, t.pd))]
              ELSE S
        S2 == IF t.pc # 0
              THEN [S1 EXCEPT !.cs = control_block_reset(@, t.pc),
                              !.lg = Append(@, Ev("clear", 0, t.pc, "-"))]
              ELSE S1
    IN  PcDrop(S2, t.pc)

\* weakable_unique_ptr(): px( 0 ), pd( ), pc( )
OwnerEmpty == [alive |-> TRUE, px |-> 0, pd |-> "dflt", pc |-> 0]

\* weakable_unique_ptr( p [, d] ): px( p ), pd( d ), pc( new control_block( p ) );
\* the value built, the new block being the last of the heap
OwnerOf(S, p, d) == [alive |-> TRUE, px |-> p, pd |-> d, pc |-> Len(S.cs)]

\* Mutant: the move constructor leaves pc behind (pc( ) for pc( std::move( r.pc ) )).
OwnerMovedTo_NoCell(r) == [alive |-> TRUE, px |-> r.px, pd |-> r.pd, pc |-> 0]

\* weakable_unique_ptr( weakable_unique_ptr && r ): the value built from r
OwnerMovedTo(r) == [alive |-> TRUE, px |-> r.px, pd |-> r.pd, pc |-> r.pc]

\* Mutant: the move constructor forgets r.px = 0.
OwnerMovedFrom_KeepsPx(r) == [alive |-> TRUE, px |-> r.px, pd |-> r.pd, pc |-> 0]

\* ... and what is left in r: r.px = 0, r.pc moved from (empty), r.pd moved from
\* (a destroy-policy that is a function pointer or an empty class keeps its
\* value; r has no object to invoke it on)
OwnerMovedFrom(r) == [alive |-> TRUE, px |-> 0, pd |-> r.pd, pc |-> 0]

\* temporary.swap( *this ) for the Owner variable o and a temporary of value t:
\* *this takes t (the temporary takes the former *this, which the caller keeps)
OwnerInstall(S, o, t) ==
    [S EXCEPT !.ow[o] = t,
              !.lg = Append(@, Ev("install", t.px, t.pc, t.pd))]

----------------------------------------------------------------------------
\* The caller

\* The object references a caller passes: null, or the object it created
\* last (objects are numbered in creation order); no reference is passed twice.
CanHand(p) ==
    \/ p = 0
    \/ /\ p \in Objs
       /\ handed[p] = 0
       /\ \A q \in Objs : q < p => handed[q] > 0

Hand(p) ==
    /\ handed' = IF p = 0 THEN handed ELSE [handed EXCEPT ![p] = @ + 1]
    /\ released' = released \ {p}

CanAlloc == Len(cells) < MaxCells

\* The operation is over: its effects become the state.
Commit(S) ==
    /\ owner' = S.ow
    /\ weak' = S.wk
    /\ cells' = S.cs
    /\ deleted' = S.del
    /\ thread' = thread

\* History of snapshots.  snap[w].o is the Owner variable that now is the Owner
\* w's binding was snapshotted from: a move relocates an Owner to another
\* variable, a swap exchanges two, and a destroyed Owner is remembered until its
\* variable holds a new one.  snap[w].fresh: that Owner was not destroyed, reset,
\* released or assigned to since.
\* The Owner o gave up what it held ...
SnapStale(sn, o) ==
    [w \in Observers |-> IF sn[w].o = o THEN [sn[w] EXCEPT !.fresh = FALSE] ELSE sn[w]]
\* ... its variable is taken by a new Owner ...
SnapDrop(sn, o) ==
    [w \in Observers |-> IF sn[w].o = o THEN NoSnap ELSE sn[w]]
\* ... or was relocated from the variable r to the variable o.
SnapMove(sn, r, o) ==
    [w \in Observers |-> IF sn[w].o = r THEN [sn[w] EXCEPT !.o = o] ELSE sn[w]]

----------------------------------------------------------------------------
\* weakable_unique_ptr

\* Mutant: the default constructor allocates a control block for the null
\* pointer, as the pointer constructors do.
OwnerDefault_Alloc(o) ==
    /\ ~owner[o].alive
    /\ CanAlloc
    /\ LET S1 == PcNew(Start, 0)
       IN  Commit([S1 EXCEPT !.ow[o] = OwnerOf(S1, 0, "dflt")])
    /\ how' = [how EXCEPT ![o] = "default"]
    /\ snap' = SnapDrop(snap, o)
    /\ UNCHANGED <<handed, released>>

\* weakable_unique_ptr() and weakable_unique_ptr( nullptr_t )
OwnerDefault(o) ==
    /\ ~owner[o].alive
    /\ Commit([Start EXCEPT !.ow[o] = OwnerEmpty])
    /\ how' = [how EXCEPT ![o] = "default"]
    /\ snap' = SnapDrop(snap, o)
    /\ UNCHANGED <<handed, released>>

\* Mutant: the pointer constructors allocate no control block for a null pointer.
OwnerConstruct_NoCellForNull(o, p, d) ==
    /\ ~owner[o].alive
    /\ CanHand(p)
    /\ CanAlloc
    /\ LET S1 == IF p = 0 THEN Start ELSE PcNew(Start, p)
       IN  Commit([S1 EXCEPT !.ow[o] = IF p = 0 THEN [OwnerEmpty EXCEPT !.pd = d]
                                       ELSE OwnerOf(S1, p, d)])
    /\ Hand(p)
    /\ how' = [how EXCEPT ![o] = "other"]
    /\ snap' = SnapDrop(snap, o)

\* weakable_unique_ptr( p ) with d the default destroy-policy,
\* weakable_unique_ptr( p, d ) otherwise
OwnerConstruct(o, p, d) ==
    /\ ~owner[o].alive
    /\ CanHand(p)
    /\ CanAlloc
    /\ LET S1 == PcNew(Start, p)
       IN  Commit([S1 EXCEPT !.ow[o] = OwnerOf(S1, p, d)])
    /\ Hand(p)
    /\ how' = [how EXCEPT ![o] = "other"]
    /\ snap' = SnapDrop(snap, o)

\* weakable_unique_ptr( weakable_unique_ptr && r )
OwnerMoveConstruct(o, r) ==
    /\ ~owner[o].alive
    /\ owner[r].alive
    /\ Commit([Start EXCEPT !.ow[o] = OwnerMovedTo(owner[r]),
                            !.ow[r] = OwnerMovedFrom(owner[r])])
    /\ how' = [how EXCEPT ![o] = "other", ![r] = "other"]
    /\ snap' = SnapMove(SnapDrop(snap, o), r, o)
    /\ UNCHANGED <<handed, released>>

\* operator=( weakable_unique_ptr && r ):
\* weakable_unique_ptr( std::move( r ) ).swap( *this )
OwnerMoveAssign(o, r) ==
    /\ owner[o].alive
    /\ owner[r].alive
    /\ LET tmp == OwnerMovedTo(owner[r])
           S1 == [Start EXCEPT !.ow[r] = OwnerMovedFrom(owner[r])]
           old == S1.ow[o]
           S2 == OwnerInstall(S1, o, tmp)
       IN  Commit(OwnerDtor(S2, old))
    /\ how' = [how EXCEPT ![r] = "other", ![o] = "other"]
    /\ snap' = IF o = r THEN snap ELSE SnapMove(SnapStale(snap, o), r, o)
    /\ UNCHANGED <<handed, released>>

\* Mutant: operator=( nullptr_t ) drops the object without destroying it.
OwnerAssignNull_Leaks(o) ==
    /\ owner[o].alive
    /\ LET old == owner[o]
           S1 == OwnerInstall(Start, o, OwnerEmpty)
       IN  Commit(OwnerDtor(S1, [old EXCEPT !.px = 0]))
    /\ how' = [how EXCEPT ![o] = "other"]
    /\ snap' = SnapStale(snap, o)
    /\ UNCHANGED <<handed, released>>

\* operator=( nullptr_t ): weakable_unique_ptr().swap( *this )
OwnerAssignNull(o) ==
    /\ owner[o].alive
    /\ LET old == owner[o]
           S1 == OwnerInstall(Start, o, OwnerEmpty)
       IN  Commit(OwnerDtor(S1, old))
    /\ how' = [how EXCEPT ![o] = "other"]
    /\ snap' = SnapStale(snap, o)
    /\ UNCHANGED <<handed, released>>

\* Mutant: return tmp.px, the temporary keeping the object it is destroyed with.
OwnerRelease_Deletes(o) ==
    /\ owner[o].alive
    /\ LET old == owner[o]
           S1 == OwnerInstall(Start, o, OwnerEmpty)
           ret == old.px
           S2 == [S1 EXCEPT !.lg = Append(@, Ev("return", ret, 0, "-"))]
       IN  /\ Commit(OwnerDtor(S2, old))
           /\ released' = IF ret = 0 THEN released ELSE released \cup {ret}
    /\ how' = [how EXCEPT ![o] = "other"]
    /\ snap' = SnapStale(snap, o)
    /\ UNCHANGED handed

\* release(): tmp.swap( *this ); return boost::exchange( tmp.px, nullptr )
OwnerRelease(o) ==
    /\ owner[o].alive
    /\ LET old == owner[o]
           S1 == OwnerInstall(Start, o, OwnerEmpty)
           ret == old.px
           tmp == [old EXCEPT !.px = 0]
           S2 == [S1 EXCEPT !.lg = Append(@, Ev("return", ret, 0, "-"))]
       IN  /\ Commit(OwnerDtor(S2, tmp))
           /\ released' = IF ret = 0 THEN released ELSE released \cup {ret}
    /\ how' = [how EXCEPT ![o] = "other"]
    /\ snap' = SnapStale(snap, o)
    /\ UNCHANGED handed

\* Mutant: reset( p ) destroys what the Owner holds, clears its control block,
\* and only then allocates the new control block and installs it.
reset_DestroyFirst(S, o, p) ==
    LET old == S.ow[o]
        S1 == OwnerDtor(S, old)
        S2 == PcNew(S1, p)
    IN  OwnerInstall(S2, o, OwnerOf(S2, p, "dflt"))

\* The body of reset( p ): the temporary weakable_unique_ptr( p ) is constructed,
\* swapped with *this, and destroyed holding what *this held.
reset(S, o, p) ==
    LET old == S.ow[o]
        S1 == PcNew(S, p)
        S2 == OwnerInstall(S1, o, OwnerOf(S1, p, "dflt"))
    IN  OwnerDtor(S2, old)

\* Mutant: reset( p ) in place: the object is destroyed and the control block
\* the Owner has is pointed to p.
OwnerReset_InPlace(o, p) ==
    /\ owner[o].alive
    /\ CanHand(p)
    /\ CanAlloc
    /\ LET old == owner[o]
           S1 == IF old.px # 0 THEN [Start EXCEPT !.del[old.px] = @ + 1] ELSE Start
           S2 == IF old.pc # 0 THEN [S1 EXCEPT !.cs[old.pc].px = p] ELSE PcNew(S1, p)
           c  == IF old.pc # 0 THEN old.pc ELSE Len(S2.cs)
       IN  Commit([S2 EXCEPT !.ow[o] = [alive |-> TRUE, px |-> p, pd |-> old.pd, pc |-> c]])
    /\ Hand(p)
    /\ how' = [how EXCEPT ![o] = "reset"]
    /\ snap' = SnapStale(snap, o)

\* reset( p ): weakable_unique_ptr( p ).swap( *this )
OwnerReset(o, p) ==
    /\ owner[o].alive
    /\ CanHand(p)
    /\ CanAlloc
    /\ Commit(reset(Start, o, p))
    /\ Hand(p)
    /\ how' = [how EXCEPT ![o] = "reset"]
    /\ snap' = SnapStale(snap, o)

\* Mutant: swap( r ) forgets std::swap( pd, r.pd ).
OwnerSwap_NoPd(o, r) ==
    /\ o # r
    /\ owner[o].alive
    /\ owner[r].alive
    /\ Commit([Start EXCEPT !.ow[o] = [owner[r] EXCEPT !.pd = owner[o].pd],
                            !.ow[r] = [owner[o] EXCEPT !.pd = owner[r].pd]])
    /\ how' = [how EXCEPT ![o] = "other", ![r] = "other"]
    /\ snap' = [w \in Observers |->
                  IF snap[w].o = o THEN [snap[w] EXCEPT !.o = r]
                  ELSE IF snap[w].o = r THEN [snap[w] EXCEPT !.o = o]
                  ELSE snap[w]]
    /\ UNCHANGED <<handed, released>>

\* Mutant: swap( r ) forgets std::swap( pc, r.pc ).
OwnerSwap_NoPc(o, r) ==
    /\ o # r
    /\ owner[o].alive
    /\ owner[r].alive
    /\ Commit([Start EXCEPT !.ow[o] = [owner[r] EXCEPT !.pc = owner[o].pc],
                            !.ow[r] = [owner[o] EXCEPT !.pc = owner[r].pc]])
    /\ how' = [how EXCEPT ![o] = "other", ![r] = "other"]
    /\ snap' = [w \in Observers |->
                  IF snap[w].o = o THEN [snap[w] EXCEPT !.o = r]
                  ELSE IF snap[w].o = r THEN [snap[w] EXCEPT !.o = o]
                  ELSE snap[w]]
    /\ UNCHANGED <<handed, released>>

\* swap( r ): std::swap of px, pd and pc
OwnerSwap(o, r) ==
    /\ o # r
    /\ owner[o].alive
    /\ owner[r].alive
    /\ Commit([Start EXCEPT !.ow[o] = owner[r], !.ow[r] = owner[o]])
    /\ how' = [how EXCEPT ![o] = "other", ![r] = "other"]
    /\ snap' = [w \in Observers |->
                  IF snap[w].o = o THEN [snap[w] EXCEPT !.o = r]
                  ELSE IF snap[w].o = r THEN [snap[w] EXCEPT !.o = o]
                  ELSE snap[w]]
    /\ UNCHANGED <<handed, released>>

\* ~weakable_unique_ptr() of the variable o
OwnerDestroy(o) ==
    /\ owner[o].alive
    /\ LET S1 == OwnerDtor(Start, owner[o])
       IN  Commit([S1 EXCEPT !.ow[o] = DeadOwner])
    /\ how' = [how EXCEPT ![o] = "none"]
    /\ snap' = SnapStale(snap, o)
    /\ UNCHANGED <<handed, released>>

\* get()
Get(o) == owner[o].px

----------------------------------------------------------------------------
\* unique_weak_ptr

\* unique_weak_ptr(): pc( )
WeakDefault(w) ==
    /\ ~weak[w].alive
    /\ Commit([Start EXCEPT !.wk[w] = [alive |-> TRUE, pc |-> 0]])
    /\ snap' = [snap EXCEPT ![w] = NoSnap]
    /\ UNCHANGED <<handed, released, how>>

\* Mutant: the copy constructor leaves pc empty (pc( ) for pc( r.pc )).
WeakCopy_Unbound(w, r) ==
    /\ ~weak[w].alive
    /\ weak[r].alive
    /\ Commit([Start EXCEPT !.wk[w] = [alive |-> TRUE, pc |-> 0]])
    /\ snap' = [snap EXCEPT ![w] = snap[r]]
    /\ UNCHANGED <<handed, released, how>>

\* unique_weak_ptr( const unique_weak_ptr & r ): pc( r.pc )
WeakCopy(w, r) ==
    /\ ~weak[w].alive
    /\ weak[r].alive
    /\ LET S1 == PcAcquire(Start, weak[r].pc)
       IN  Commit([S1 EXCEPT !.wk[w] = [alive |-> TRUE, pc |-> weak[r].pc]])
    /\ snap' = [snap EXCEPT ![w] = snap[r]]
    /\ UNCHANGED <<handed, released, how>>

\* unique_weak_ptr( const weakable_unique_ptr & r ): pc( r.pc )
WeakFromOwner(w, o) ==
    /\ ~weak[w].alive
    /\ owner[o].alive
    /\ LET S1 == PcAcquire(Start, owner[o].pc)
       IN  Commit([S1 EXCEPT !.wk[w] = [alive |-> TRUE, pc |-> owner[o].pc]])
    /\ snap' = [snap EXCEPT ![w] = [o |-> o, fresh |-> TRUE]]
    /\ UNCHANGED <<handed, released, how>>

\* unique_weak_ptr( unique_weak_ptr && r ): pc( std::move( r.pc ) )
WeakMove(w, r) ==
    /\ ~weak[w].alive
    /\ weak[r].alive
    /\ Commit([Start EXCEPT !.wk[w] = [alive |-> TRUE, pc |-> weak[r].pc],
                            !.wk[r] = [alive |-> TRUE, pc |-> 0]])
    /\ snap' = [snap EXCEPT ![w] = snap[r], ![r] = NoSnap]
    /\ UNCHANGED <<handed, released, how>>

\* operator=( const unique_weak_ptr & r ): unique_weak_ptr( r ).swap( *this )
WeakAssign(w, r) ==
    /\ weak[w].alive
    /\ weak[r].alive
    /\ LET S1 == PcAcquire(Start, weak[r].pc)
           old == S1.wk[w].pc
           S2 == [S1 EXCEPT !.wk[w].pc = weak[r].pc]
       IN  Commit(PcDrop(S2, old))
    /\ snap' = [snap EXCEPT ![w] = snap[r]]
    /\ UNCHANGED <<handed, released, how>>

\* operator=( const weakable_unique_ptr & r ): unique_weak_ptr( r ).swap( *this )
WeakAssignOwner(w, o) ==
    /\ weak[w].alive
    /\ owner[o].alive
    /\ LET S1 == PcAcquire(Start, owner[o].pc)
           old == S1.wk[w].pc
           S2 == [S1 EXCEPT !.wk[w].pc = owner[o].pc]
       IN  Commit(PcDrop(S2, old))
    /\ snap' = [snap EXCEPT ![w] = [o |-> o, fresh |-> TRUE]]
    /\ UNCHANGED <<handed, released, how>>

\* operator=( unique_weak_ptr && r ): unique_weak_ptr( std::move( r ) ).swap( *this )
WeakMoveAssign(w, r) ==
    /\ weak[w].alive
    /\ weak[r].alive
    /\ LET tmp == weak[r].pc
           S1 == [Start EXCEPT !.wk[r].pc = 0]
           old == S1.wk[w].pc
           S2 == [S1 EXCEPT !.wk[w].pc = tmp]
       IN  Commit(PcDrop(S2, old))
    /\ snap' = IF w = r THEN snap ELSE [snap EXCEPT ![w] = snap[r], ![r] = NoSnap]
    /\ UNCHANGED <<handed, released, how>>

\* Mutant: pc->reset() for pc.reset(): the control block is cleared and kept.
WeakReset_ClearsCell(w) ==
    /\ weak[w].alive
    /\ Commit(IF weak[w].pc # 0
              THEN [Start EXCEPT !.cs = control_block_reset(@, weak[w].pc)]
              ELSE Start)
    /\ UNCHANGED <<handed, released, how, snap>>

\* reset(): unique_weak_ptr().swap( *this )
WeakReset(w) ==
    /\ weak[w].alive
    /\ LET old == weak[w].pc
           S1 == [Start EXCEPT !.wk[w].pc = 0]
       IN  Commit(PcDrop(S1, old))
    /\ snap' = [snap EXCEPT ![w] = NoSnap]
    /\ UNCHANGED <<handed, released, how>>

\* swap( r ): std::swap( pc, r.pc )
WeakSwap(w, r) ==
    /\ w # r
    /\ weak[w].alive
    /\ weak[r].alive
    /\ Commit([Start EXCEPT !.wk[w] = weak[r], !.wk[r] = weak[w]])
    /\ snap' = [snap EXCEPT ![w] = snap[r], ![r] = snap[w]]
    /\ UNCHANGED <<handed, released, how>>

\* ~unique_weak_ptr() of the variable w
WeakDestroy(w) ==
    /\ weak[w].alive
    /\ LET S1 == PcDrop(Start, weak[w].pc)
       IN  Commit([S1 EXCEPT !.wk[w] = DeadWeak])
    /\ snap' = [snap EXCEPT ![w] = NoSnap]
    /\ UNCHANGED <<handed, released, how>>

\* expired(): !( pc && pc->get() )
expired(w) == ~(weak[w].pc # 0 /\ control_block_get(cells, weak[w].pc) # 0)

\* try_get(): pc ? pc->get() : nullptr
try_get(w) == IF weak[w].pc # 0 THEN control_block_get(cells, weak[w].pc) ELSE 0

----------------------------------------------------------------------------
\* The program

Init ==
    /\ owner = [o \in Owners |-> DeadOwner]
    /\ weak = [w \in Observers |-> DeadWeak]
    /\ cells = <<>>
    /\ handed = [r \in Objs |-> 0]
    /\ deleted = [r \in Objs |-> 0]
    /\ released = {}
    /\ how = [o \in Owners |-> "none"]
    /\ snap = [w \in Observers |-> NoSnap]
    /\ thread = [t \in Threads |-> IdleThread]

OwnerOp ==
    \/ \E o \in Owners : OwnerDefault(o)
    \/ \E o \in Owners, p \in {0} \cup Objs, d \in Deleters : OwnerConstruct(o, p, d)
    \/ \E o, r \in Owners : OwnerMoveConstruct(o, r)
    \/ \E o, r \in Owners : OwnerMoveAssign(o, r)
    \/ \E o \in Owners : OwnerAssignNull(o)
    \/ \E o \in Owners : OwnerRelease(o)
    \/ \E o \in Owners, p \in {0} \cup Objs : OwnerReset(o, p)
    \/ \E o, r \in Owners : OwnerSwap(o, r)
    \/ \E o \in Owners : OwnerDestroy(o)

WeakOp ==
    \/ \E w \in Observers : WeakDefault(w)
    \/ \E w, r \in Observers : WeakCopy(w, r)
    \/ \E w \in Observers, o \in Owners : WeakFromOwner(w, o)
    \/ \E w, r \in Observers : WeakMove(w, r)
    \/ \E w, r \in Observers : WeakAssign(w, r)
    \/ \E w \in Observers, o \in Owners : WeakAssignOwner(w, o)
    \/ \E w, r \in Observers : WeakMoveAssign(w, r)
    \/ \E w \in Observers : WeakReset(w)
    \/ \E w, r \in Observers : WeakSwap(w, r)
    \/ \E w \in Observers : WeakDestroy(w)

Next == OwnerOp \/ WeakOp

Spec == Init /\ [][Next]_vars

----------------------------------------------------------------------------
\* Vocabulary of the properties

\* w is an Observer whose binding was snapshotted from the Owner now at o
From(w, o) == weak[w].alive /\ snap[w].o = o

\* ... and that Owner was not destroyed, reset, released or assigned to since
Fresh(w, o) == From(w, o) /\ snap[w].fresh

Bound(w) == weak[w].alive /\ weak[w].pc # 0

Holders(r) == {o \in Owners : owner[o].alive /\ owner[o].px = r}

----------------------------------------------------------------------------
\* C1: no use-after-free through an Observer.  Each object reference being
\* handed to an Owner at most once, whenever try_get() of an Observer returns a
\* non-null r, the destroy-policy has not been invoked on r and exactly one live
\* Owner holds r.
C1_NoUseAfterFree ==
    (\A r \in Objs : handed[r] <= 1) =>
        \A w \in Observers :
            weak[w].alive /\ try_get(w) # 0 =>
                /\ deleted[try_get(w)] = 0
                /\ Cardinality(Holders(try_get(w))) = 1

\* An Observer returns an object while another object was destroyed and another
\* Observer is left on a cleared control block.
C1_Witness ==
    \E w, v \in Observers :
        /\ weak[w].alive /\ try_get(w) # 0
        /\ Bound(v) /\ expired(v)
        /\ \E r \in Objs : deleted[r] > 0

\* C2: an Observer snapshotted from an Owner that holds a non-null r, the Owner
\* not destroyed, reset or released in between, is not expired and its try_get()
\* is r.
C2_SnapshotSeesObject ==
    \A w \in Observers, o \in Owners :
        Fresh(w, o) /\ owner[o].alive /\ owner[o].px # 0 =>
            /\ ~expired(w)
            /\ try_get(w) = owner[o].px

\* Two Observers snapshotted from an Owner constructed from a pointer.
C2_Witness ==
    \E o \in Owners :
        /\ owner[o].alive /\ owner[o].px # 0 /\ how[o] = "other"
        /\ \A w \in Observers : Fresh(w, o) /\ try_get(w) = owner[o].px

\* C3: once an Owner is destroyed, every Observer snapshotted from it, before
\* or after it was moved to the variable it was destroyed in, reports expired()
\* and a null try_get().
C3_DestroyExpires ==
    \A w \in Observers, o \in Owners :
        From(w, o) /\ ~owner[o].alive => expired(w) /\ try_get(w) = 0

\* A destroyed Owner was snapshotted from while it had a control block; the
\* control block outlives it, cleared.
C3_Witness ==
    \E w \in Observers, o \in Owners :
        /\ From(w, o) /\ ~owner[o].alive
        /\ Bound(w) /\ cells[weak[w].pc].st = "live"
        /\ \E r \in Objs : deleted[r] = 1

\* C4: move construction and move assignment from the Owner r to another Owner
\* o give o the object and the very control block of r, allocate nothing, leave
\* r without object and control block, and every Observer snapshotted from r
\* reports after the move what it reported before.
C4_MoveTransparent ==
    [][\A o, r \in Owners :
          o # r /\ (OwnerMoveConstruct(o, r) \/ OwnerMoveAssign(o, r)) =>
              /\ owner'[o].px = owner[r].px
              /\ owner'[o].pc = owner[r].pc
              /\ Len(cells') = Len(cells)
              /\ owner'[r].alive /\ owner'[r].px = 0 /\ owner'[r].pc = 0
              /\ \A w \in Observers :
                    Fresh(w, r) => /\ weak'[w] = weak[w]
                                   /\ try_get(w)' = owner[r].px
                                   /\ try_get(w)' = try_get(w)]_vars

\* A moved-from Owner (no control block, yet a destroy-policy given to a
\* constructor) and the Owner that took its object, observed.
C4_Witness ==
    \E o, r \in Owners, w \in Observers :
        /\ owner[r] = [alive |-> TRUE, px |-> 0, pd |-> "cust", pc |-> 0]
        /\ owner[o].alive /\ owner[o].px # 0 /\ owner[o].pd = "cust"
        /\ Fresh(w, o) /\ try_get(w) = owner[o].px

\* C5: snapshots across reset.  reset( p ) of the Owner o leaves every Observer
\* snapshotted from o before the call untouched and expired, and o holding p; an
\* Observer snapshotted from o after the call is bound to the control block o has
\* now and its try_get() is p.
C5_ResetSnapshots ==
    /\ [][\A o \in Owners, p \in {0} \cup Objs :
            OwnerReset(o, p) =>
                /\ owner'[o].px = p
                /\ \A w \in Observers :
                      From(w, o) => weak'[w] = weak[w] /\ expired(w)']_vars
    /\ [](\A w \in Observers, o \in Owners :
            Fresh(w, o) /\ how[o] = "reset" =>
                /\ weak[w].pc = owner[o].pc
                /\ try_get(w) = owner[o].px)

\* An Owner after reset( r2 ), one Observer snapshotted from it while it held
\* another object, one snapshotted since.
C5_Witness ==
    \E o \in Owners, w, v \in Observers :
        /\ how[o] = "reset" /\ owner[o].px # 0
        /\ From(w, o) /\ ~snap[w].fresh /\ Bound(w) /\ expired(w)
        /\ Fresh(v, o) /\ try_get(v) = owner[o].px
        /\ \E r \in Objs : deleted[r] = 1

\* C6: release() of an Owner holding r returns r to the caller, invokes no
\* destroy-policy, leaves the Owner without object and control block and every
\* Observer snapshotted from it expired; and no destroy-policy is ever invoked on
\* an object the caller got back, which no Owner holds.
C6_Release ==
    /\ [][\A o \in Owners :
            OwnerRelease(o) =>
                /\ released' = released \cup ({owner[o].px} \ {0})
                /\ deleted' = deleted
                /\ owner'[o].alive /\ owner'[o].px = 0 /\ owner'[o].pc = 0
                /\ \A w \in Observers :
                      From(w, o) => weak'[w] = weak[w] /\ expired(w)']_vars
    /\ [](\A r \in released : deleted[r] = 0 /\ Holders(r) = {})

\* An object is back with the caller, undestroyed, and an Observer snapshotted
\* from its Owner is left on the cleared control block.
C6_Witness ==
    \E r \in released, o \in Owners, w \in Observers :
        /\ handed[r] = 1 /\ deleted[r] = 0
        /\ owner[o].alive /\ owner[o].px = 0 /\ owner[o].pc = 0
        /\ From(w, o) /\ ~snap[w].fresh /\ Bound(w) /\ expired(w)

\* C7: a default-constructed Owner has no control block; an Observer
\* snapshotted from it has none either and is expired; and an Observer without
\* control block that was snapshotted from an Owner stays so, expired, under
\* every later operation on Owners, reset( r ) included.
C7_DefaultOwner ==
    /\ [][\A o \in Owners :
            OwnerDefault(o) => owner'[o].alive /\ owner'[o].px = 0 /\ owner'[o].pc = 0]_vars
    /\ [](\A w \in Observers, o \in Owners :
            Fresh(w, o) /\ how[o] = "default" => weak[w].pc = 0 /\ expired(w))
    /\ [][\A w \in Observers, o \in Owners :
            From(w, o) /\ weak[w].pc = 0 /\ OwnerOp =>
                weak'[w].pc = 0 /\ expired(w)']_vars

\* An Observer snapshotted from an Owner without control block; the Owner was
\* reset since and holds an object.
C7_Witness ==
    \E w \in Observers, o \in Owners :
        /\ From(w, o) /\ ~snap[w].fresh /\ weak[w].pc = 0 /\ expired(w)
        /\ how[o] = "reset" /\ owner[o].px # 0

\* A control block that stores a reference does so no more
Cleared(c) == cells[c].px # 0 /\ cells'[c].px = 0

\* An Observer left alone never comes back from expired
StaysExpired(w) ==
    weak[w].alive /\ weak'[w] = weak[w] /\ expired(w) => expired(w)'

\* C8 as stated: a control block once empty stays empty, an Observer left alone
\* never comes back from expired, and a control block is emptied only by the
\* destructor, reset, release or move assignment of an Owner.
C8_Original ==
    [][/\ \A c \in 1..Len(cells) :
            /\ cells[c].px = 0 => cells'[c].px = 0
            /\ Cleared(c) =>
                  \E o \in Owners :
                      \/ OwnerDestroy(o)
                      \/ OwnerRelease(o)
                      \/ \E p \in {0} \cup Objs : OwnerReset(o, p)
                      \/ \E r \in Owners : OwnerMoveAssign(o, r)
       /\ \A w \in Observers : StaysExpired(w)]_vars

\* C8, amended: ... is emptied only by the destructor, reset, release, move
\* assignment or nullptr assignment of an Owner.
C8_ExpiryIrreversible ==
    [][/\ \A c \in 1..Len(cells) :
            /\ cells[c].px = 0 => cells'[c].px = 0
            /\ Cleared(c) =>
                  \E o \in Owners :
                      \/ OwnerDestroy(o)
                      \/ OwnerRelease(o)
                      \/ OwnerAssignNull(o)
                      \/ \E p \in {0} \cup Objs : OwnerReset(o, p)
                      \/ \E r \in Owners : OwnerMoveAssign(o, r)
       /\ \A w \in Observers : StaysExpired(w)]_vars

\* The Owner at o was assigned nullptr (it has no control block, the default
\* destroy-policy, and an object was destroyed with the other one); an Observer
\* snapshotted from it is left on the cleared control block.
C8_Witness ==
    \E o \in Owners, w \in Observers :
        /\ owner[o] = OwnerEmpty /\ how[o] = "other"
        /\ From(w, o) /\ ~snap[w].fresh /\ Bound(w) /\ expired(w)
        /\ released = {} /\ \E r \in Objs : deleted[r] = 1

\* C9: Observers snapshotted from the same Owner while it held the same thing
\* report the same expired() and the same try_get() in every state, so they
\* expire in the same step.
C9_ObserversAgree ==
    \A w, v \in Observers :
        /\ weak[w].alive /\ weak[v].alive
        /\ snap[w].o # 0 /\ snap[w].o = snap[v].o
        /\ snap[w].fresh = snap[v].fresh
        => expired(w) = expired(v) /\ try_get(w) = try_get(v)

\* Two Observers of one Owner, expired together, on a control block that is
\* still there.
C9_Witness ==
    \E o \in Owners :
        /\ \A w \in Observers : From(w, o) /\ ~snap[w].fresh /\ Bound(w) /\ expired(w)
        /\ weak[1].pc = weak[2].pc
        /\ \E r \in Objs : deleted[r] = 1 \/ r \in released

\* Number of live handles on the control block c
Handles(c) ==
    Cardinality({o \in Owners : owner[o].alive /\ owner[o].pc = c})
        + Cardinality({w \in Observers : weak[w].alive /\ weak[w].pc = c})

\* C10: the reference count of a control block is the number of live handles
\* on it; a control block is deallocated exactly when its count is zero; no live
\* handle is on a deallocated control block; and with every Owner and Observer
\* destroyed every control block is deallocated.
C10_RefCount ==
    /\ \A c \in 1..Len(cells) :
          /\ cells[c].ref_count = Handles(c)
          /\ cells[c].st = "freed" <=> cells[c].ref_count = 0
          /\ cells[c].st = "freed" => Handles(c) = 0
    /\ \A o \in Owners : owner[o].alive => owner[o].pc \in 0..Len(cells)
    /\ \A w \in Observers : weak[w].alive => weak[w].pc \in 0..Len(cells)
    /\ (\A o \in Owners : ~owner[o].alive) /\ (\A w \in Observers : ~weak[w].alive)
          => \A c \in 1..Len(cells) : cells[c].st = "freed"

\* One control block with three handles on it, another deallocated.
C10_Witness ==
    \E c, e \in 1..Len(cells) :
        /\ cells[c].st = "live" /\ cells[c].ref_count = 3
        /\ cells[e].st = "freed"

----------------------------------------------------------------------------
\* A caller that also passes an object reference it passed before: to the
\* pointer constructors ...
OwnerConstructAgain(o, p, d) ==
    /\ ~owner[o].alive
    /\ p \in Objs /\ handed[p] >= 1
    /\ CanAlloc
    /\ LET S1 == PcNew(Start, p)
       IN  Commit([S1 EXCEPT !.ow[o] = OwnerOf(S1, p, d)])
    /\ Hand(p)
    /\ how' = [how EXCEPT ![o] = "other"]
    /\ snap' = SnapDrop(snap, o)

\* ... and to reset( p )
OwnerResetAgain(o, p) ==
    /\ owner[o].alive
    /\ p \in Objs /\ handed[p] >= 1
    /\ CanAlloc
    /\ Commit(reset(Start, o, p))
    /\ Hand(p)
    /\ how' = [how EXCEPT ![o] = "reset"]
    /\ snap' = SnapStale(snap, o)

NextCaller ==
    \/ OwnerOp
    \/ \E o \in Owners, p \in Objs, d \in Deleters : OwnerConstructAgain(o, p, d)
    \/ \E o \in Owners, p \in Objs : OwnerResetAgain(o, p)

\* Owners alone, the caller free in the references it passes
SpecCaller == Init /\ [][NextCaller]_vars

\* No two live Owners hold the same non-null object
Exclusive ==
    \A o, r \in Owners :
        o # r /\ owner[o].alive /\ owner[r].alive /\ owner[o].px # 0 =>
            owner[o].px # owner[r].px

\* C11 as stated: after any sequence of constructions, moves, swaps, resets,
\* releases and destructions, whatever object references the caller passes, no
\* two live Owners hold the same non-null object.
C11_Original == Exclusive

\* C11, amended: ... each object reference being passed to an Owner at most
\* once, no two live Owners hold the same non-null object.
C11_ExclusiveOwnership == (\A x \in Objs : handed[x] <= 1) => Exclusive

\* Two live Owners hold different objects, each passed once, one to a
\* constructor with a destroy-policy and one to reset.
C11_Witness ==
    /\ \A o \in Owners : owner[o].alive /\ owner[o].px # 0 /\ handed[owner[o].px] = 1
    /\ owner[1].px # owner[2].px
    /\ \E o, r \in Owners : owner[o].pd = "cust" /\ how[r] = "reset"

\* The live Owners that hold the control block c
CellOwners(c) == {o \in Owners : owner[o].alive /\ owner[o].pc = c}

\* C12 as stated: every control block is held by at most one Owner; it stores a
\* non-null reference if and only if some live Owner holds it and that Owner's
\* get() equals the stored reference; held by no Owner it stores null.
C12_Original ==
    \A c \in 1..Len(cells) :
        /\ Cardinality(CellOwners(c)) <= 1
        /\ cells[c].px # 0 <=> \E o \in CellOwners(c) : Get(o) = cells[c].px
        /\ CellOwners(c) = {} => cells[c].px = 0

\* C12, amended: ... it stores a non-null reference if and only if some live
\* Owner holds it and that Owner's get() is not null; the get() of an Owner that
\* holds it always equals the stored reference; held by no Owner it stores null.
C12_CellOwnerConsistency ==
    \A c \in 1..Len(cells) :
        /\ Cardinality(CellOwners(c)) <= 1
        /\ cells[c].px # 0 <=> \E o \in CellOwners(c) : Get(o) # 0
        /\ \A o \in CellOwners(c) : Get(o) = cells[c].px
        /\ CellOwners(c) = {} => cells[c].px = 0

\* An Owner constructed from the null pointer holds a control block that
\* stores null, the other Owner one that stores its object, Observers on both.
C12_Witness ==
    \E o, r \in Owners, w, v \in Observers :
        /\ owner[o].alive /\ owner[o].pc # 0 /\ Get(o) = 0
        /\ owner[r].alive /\ owner[r].pc # 0 /\ Get(r) # 0
        /\ weak[w].alive /\ weak[w].pc = owner[o].pc
        /\ weak[v].alive /\ weak[v].pc = owner[r].pc

\* The stored reference of every control block is what it was
CellsKeepPx ==
    /\ Len(cells') = Len(cells)
    /\ \A c \in 1..Len(cells) : cells'[c].px = cells[c].px

\* The Observers that hold the control block c
CellObservers(c) == {w \in Observers : weak[w].alive /\ weak[w].pc = c}

\* C13: Observers are read-only and non-extending.  Every Observer operation
\* leaves the stored reference of every control block, every Owner and the
\* count of destroy-policy invocations unchanged (a step that changes one of
\* them is no Observer operation); and the destruction or the
\* reset of an Owner that holds an object destroys that object in that very
\* operation, however many Observers hold its control block.
C13_ObserversReadOnly ==
    [][ /\ ~(CellsKeepPx /\ owner' = owner /\ deleted' = deleted) => ~WeakOp
        /\ \A o \in Owners :
              Get(o) # 0 /\ (OwnerDestroy(o) \/ \E p \in 0..MaxObj : OwnerReset(o, p)) =>
                  deleted'[Get(o)] = deleted[Get(o)] + 1 ]_vars

\* An object has been destroyed while both Observers held its control block,
\* and they still hold it.
C13_Witness ==
    \E c \in 1..Len(cells), x \in Objs :
        /\ CellObservers(c) = Observers
        /\ CellOwners(c) = {}
        /\ cells[c].ref_count = 2
        /\ deleted[x] = 1
        /\ \A o \in Owners : ~(owner[o].alive /\ Get(o) = x)

\* The operations that end the ownership of what the Owner at o holds
OwnerGivesUp(o) ==
    \/ OwnerDestroy(o)
    \/ OwnerAssignNull(o)
    \/ \E p \in 0..MaxObj : OwnerReset(o, p)
    \/ \E r \in Owners \ {o} : OwnerMoveAssign(o, r)

\* C14: exactly-once destruction.  Each object being handed to an Owner once,
\* the destroy-policy is never invoked twice on an object and never on a
\* released one; the destruction, reset, nullptr-assignment or move-assignment
\* over the Owner that holds an object leaves it destroyed exactly once; the
\* destruction of an Owner that holds nothing (moved-from, released) invokes
\* no destroy-policy.
C14_ExactlyOnce ==
    /\ [](\A x \in Objs : deleted[x] <= 1 /\ (x \in released => deleted[x] = 0))
    /\ [][\A o \in Owners :
            /\ Get(o) # 0 /\ OwnerGivesUp(o) => deleted'[Get(o)] = 1
            /\ Get(o) = 0 /\ OwnerDestroy(o) => deleted' = deleted]_vars

\* Both objects were handed; one was destroyed once, the other was released
\* and never destroyed, and every Owner has been destroyed.
C14_Witness ==
    \E x, y \in Objs :
        /\ handed[x] = 1 /\ deleted[x] = 1
        /\ handed[y] = 1 /\ y \in released /\ deleted[y] = 0
        /\ \A o \in Owners : ~owner[o].alive

\* The statements ~weakable_unique_ptr() executes on the Owner at o, in order
DtorTrace(o) == OwnerDtor(Start, owner[o]).lg

\* C15: destructor ordering.  The destruction of an Owner that holds an object
\* and a control block first invokes the destroy-policy on the object, with the
\* Owner's destroy-policy, then clears the control block; once it has completed
\* every Observer on that control block is expired.
C15_DtorOrder ==
    [][\A o \in Owners :
          Get(o) # 0 /\ owner[o].pc # 0 /\ OwnerDestroy(o) =>
              /\ Len(DtorTrace(o)) >= 2
              /\ DtorTrace(o)[1] = Ev("delete", Get(o), owner[o].pc, owner[o].pd)
              /\ DtorTrace(o)[2] = Ev("clear", 0, owner[o].pc, "-")
              /\ deleted'[Get(o)] = deleted[Get(o)] + 1
              /\ \A w \in Observers :
                    weak[w].alive /\ weak[w].pc = owner[o].pc =>
                        weak'[w] = weak[w] /\ expired(w)']_vars

\* The Owner an Observer was snapshotted from has been destroyed with its
\* object: the Observer is still bound and sees expired.
C15_Witness ==
    \E w \in Observers, o \in Owners, x \in Objs :
        /\ From(w, o) /\ ~owner[o].alive /\ how[o] = "none"
        /\ Bound(w) /\ expired(w) /\ try_get(w) = 0
        /\ cells[weak[w].pc].st = "live"
        /\ deleted[x] = 1 /\ x \notin released

\* The statements reset( p ) executes on the Owner at o, in order
ResetTrace(o, p) == reset(Start, o, p).lg

\* The position of the statement e in a trace that has it
Pos(lg, e) == CHOOSE i \in 1..Len(lg) : lg[i].ev = e

\* reset( p ) called on an Owner that holds an object and a control block
ResetOfHolder(o, p) == Get(o) # 0 /\ owner[o].pc # 0 /\ OwnerReset(o, p)

\* C16 as stated: reset destroys the current object, clears the current control
\* block, then allocates the new control block and installs it in the Owner.
C16_Original ==
    [][\A o \in Owners, p \in 0..MaxObj :
          ResetOfHolder(o, p) =>
              LET lg == ResetTrace(o, p)
              IN  /\ Pos(lg, "delete") < Pos(lg, "clear")
                  /\ Pos(lg, "clear") < Pos(lg, "alloc")
                  /\ Pos(lg, "alloc") < Pos(lg, "install")]_vars

\* C16, amended: reset( p ) first allocates the new control block for p, then
\* installs p and the new control block in the Owner, then destroys the
\* object the Owner held with the destroy-policy it held, then clears the
\* control block it held: the Owner holds p and the new control block while
\* the destroy-policy runs on the old object.
C16_ResetOrder ==
    [][\A o \in Owners, p \in 0..MaxObj :
          ResetOfHolder(o, p) =>
              LET lg == ResetTrace(o, p)
                  n  == Len(cells) + 1
              IN  /\ Len(lg) >= 4
                  /\ lg[1] = Ev("alloc", p, n, "-")
                  /\ lg[2].ev = "install" /\ lg[2].obj = p /\ lg[2].cell = n
                  /\ lg[3] = Ev("delete", Get(o), owner[o].pc, owner[o].pd)
                  /\ lg[4] = Ev("clear", 0, owner[o].pc, "-")
                  /\ Get(o)' = p /\ owner'[o].pc = n
                  /\ deleted'[Get(o)] = deleted[Get(o)] + 1]_vars

\* An Owner that held an object and the first control block was reset to
\* another object: the first object is destroyed and its control block cleared,
\* the Owner holds the second object and the second control block.
C16_Witness ==
    \E o \in Owners, x, y \in Objs :
        /\ how[o] = "reset" /\ owner[o].alive
        /\ Get(o) = y /\ x # y
        /\ deleted[x] = 1 /\ deleted[y] = 0
        /\ owner[o].pc = 2 /\ cells[1].px = 0 /\ cells[2].px = y

\* C17: reset( p ) and release() leave the destroy-policy stored in the Owner
\* unchanged: after either, get_deleter() of the Owner is what it was before.
C17_PolicyKept ==
    [][\A o \in Owners :
          OwnerRelease(o) \/ (\E p \in 0..MaxObj : OwnerReset(o, p)) =>
              owner'[o].pd = owner[o].pd]_vars

\* What the control block c stores once ~weakable_unique_ptr() has run on the
\* Owner at o
PxAfterDtor(o, c) == OwnerDtor(Start, owner[o]).cs[c].px

\* C18: Owner swap.  A.swap( B ) exchanges px, pd and pc of A and B, invokes
\* no destroy-policy, leaves every control block and every Observer as it is,
\* so expired() and try_get() of every Observer are unchanged; after it the
\* destruction of B clears the control block A held before, and the
\* destruction of A leaves that control block as it is.
C18_OwnerSwap ==
    [][\A o, r \in Owners :
          OwnerSwap(o, r) =>
              /\ owner'[o] = owner[r] /\ owner'[r] = owner[o]
              /\ deleted' = deleted /\ cells' = cells
              /\ \A w \in Observers :
                    /\ weak'[w] = weak[w]
                    /\ expired(w)' = expired(w)
                    /\ try_get(w)' = try_get(w)
              /\ \A w \in Observers :
                    weak[w].alive /\ owner[o].pc # 0 /\ weak[w].pc = owner[o].pc =>
                        /\ PxAfterDtor(r, weak[w].pc)' = 0
                        /\ PxAfterDtor(o, weak[w].pc)' = cells[weak[w].pc].px]_vars

\* Both Owners held an object and had an Observer; since Owners were swapped,
\* the one an Observer's control block went to has been destroyed and that
\* Observer is expired, while the other Observer still sees its object.
C18_Witness ==
    \E o, r \in Owners, w, v \in Observers :
        /\ ~owner[r].alive /\ From(w, r) /\ Bound(w) /\ expired(w)
        /\ owner[o].alive /\ how[o] = "other" /\ owner[o].pd = "cust"
        /\ Fresh(v, o) /\ try_get(v) = Get(o) /\ Get(o) # 0

\* The Owner at o has just been given the control block n, allocated in this
\* step for p and held by nothing else
FreshCell(o, n, p) ==
    /\ n = Len(cells) + 1 /\ Len(cells') = n
    /\ cells'[n] = [st |-> "live", ref_count |-> 1, px |-> p]
    /\ \A r \in Owners \ {o} : owner'[r].pc # n
    /\ \A w \in Observers : weak'[w].pc # n

\* C19: control block allocation rule.  The construction of an Owner from a
\* pointer and every reset give the Owner a control block allocated in that
\* operation, storing the pointer and held by no other handle, also for the
\* null pointer; an Observer snapshotted from an Owner that holds a control
\* block for the null pointer is bound and expired; and no step changes what an
\* existing control block stores other than to null.
C19_CellAllocation ==
    [][/\ \A o \in Owners, p \in 0..MaxObj :
            (OwnerReset(o, p) \/ \E d \in Deleters : OwnerConstruct(o, p, d)) =>
                Get(o)' = p /\ FreshCell(o, owner'[o].pc, p)
       /\ \A w \in Observers, o \in Owners :
            WeakFromOwner(w, o) /\ Get(o) = 0 /\ owner[o].pc # 0 =>
                Bound(w)' /\ expired(w)' /\ weak'[w].pc = owner[o].pc
       /\ \A c \in 1..Len(cells) : cells'[c].px \in {cells[c].px, 0}]_vars

\* An Owner constructed from the null pointer was reset without argument: it
\* holds the second control block, both store null, and an Observer is
\* snapshotted from each.
C19_Witness ==
    \E o \in Owners :
        /\ owner[o].alive /\ how[o] = "reset" /\ Get(o) = 0 /\ owner[o].pc = 2
        /\ \A x \in Objs : handed[x] = 0
        /\ cells[1].px = 0 /\ cells[2].px = 0
        /\ Bound(1) /\ Bound(2) /\ weak[1].pc # weak[2].pc
        /\ \E w \in Observers : Fresh(w, o) /\ expired(w)

----------------------------------------------------------------------------
\* Two threads on one control block.  The Owner at 1 holds object 1 and the
\* control block 1, the Observer at 1 was snapshotted from it; both stay as they
\* are.  Each thread copies the Observer at 1 into an Observer of its own and
\* destroys that copy, again and again.  ref_count is a plain long:
\* ++p->ref_count and --p->ref_count are a load and a store.

InitRace ==
    /\ owner = [o \in Owners |->
                  IF o = 1 THEN [alive |-> TRUE, px |-> 1, pd |-> "dflt", pc |-> 1]
                  ELSE DeadOwner]
    /\ weak = [w \in Observers |->
                 IF w = 1 THEN [alive |-> TRUE, pc |-> 1] ELSE DeadWeak]
    /\ cells = <<[st |-> "live", ref_count |-> 2, px |-> 1]>>
    /\ handed = [r \in Objs |-> IF r = 1 THEN 1 ELSE 0]
    /\ deleted = [r \in Objs |-> 0]
    /\ released = {}
    /\ how = [o \in Owners |-> IF o = 1 THEN "other" ELSE "none"]
    /\ snap = [w \in Observers |-> IF w = 1 THEN [o |-> 1, fresh |-> TRUE] ELSE NoSnap]
    /\ thread = [t \in Threads |-> IdleThread]

RaceFrame == UNCHANGED <<owner, weak, handed, deleted, released, how, snap>>

\* unique_weak_ptr( r ) with r the Observer at 1, up to the load of
\* ++p->ref_count
CopyLoad(t) ==
    /\ thread[t].at = "idle" /\ thread[t].pc = 0
    /\ weak[1].alive /\ weak[1].pc # 0
    /\ cells[weak[1].pc].st = "live"
    /\ cells[weak[1].pc].ref_count < MaxCount
    /\ thread' = [thread EXCEPT ![t].at = "add_ref",
                                ![t].pc = weak[1].pc,
                                ![t].reg = cells[weak[1].pc].ref_count]
    /\ cells' = cells
    /\ RaceFrame

\* Mutant: ++p->ref_count stores the value it loaded.
CopyStore_NoInc(t) ==
    /\ thread[t].at = "add_ref"
    /\ cells[thread[t].pc].st = "live"
    /\ cells' = [cells EXCEPT ![thread[t].pc].ref_count = thread[t].reg]
    /\ thread' = [thread EXCEPT ![t].at = "idle",
                                ![t].raced = @ \/ cells[thread[t].pc].ref_count # thread[t].reg]
    /\ RaceFrame

\* the store of ++p->ref_count; the copy is constructed
CopyStore(t) ==
    /\ thread[t].at = "add_ref"
    /\ cells[thread[t].pc].st = "live"
    /\ cells' = [cells EXCEPT ![thread[t].pc].ref_count = thread[t].reg + 1]
    /\ thread' = [thread EXCEPT ![t].at = "idle",
                                ![t].raced = @ \/ cells[thread[t].pc].ref_count # thread[t].reg]
    /\ RaceFrame

\* ~unique_weak_ptr() of the thread's copy, up to the load of --p->ref_count
DestroyLoad(t) ==
    /\ thread[t].at = "idle" /\ thread[t].pc # 0
    /\ cells[thread[t].pc].st = "live"
    /\ thread' = [thread EXCEPT ![t].at = "release",
                                ![t].reg = cells[thread[t].pc].ref_count]
    /\ cells' = cells
    /\ RaceFrame

\* the store of --p->ref_count, then == 0 on the stored value and delete p;
\* the copy is destroyed
DestroyStore(t) ==
    /\ thread[t].at = "release"
    /\ cells[thread[t].pc].st = "live"
    /\ cells' = [cells EXCEPT ![thread[t].pc].ref_count = thread[t].reg - 1,
                              ![thread[t].pc].st = IF thread[t].reg - 1 = 0
                                                   THEN "freed" ELSE @]
    /\ thread' = [thread EXCEPT ![t].at = "idle", ![t].pc = 0,
                                ![t].raced = @ \/ cells[thread[t].pc].ref_count # thread[t].reg]
    /\ RaceFrame

NextRace ==
    \/ \E t \in Threads : CopyLoad(t)
    \/ \E t \in Threads : CopyStore(t)
    \/ \E t \in Threads : DestroyLoad(t)
    \/ \E t \in Threads : DestroyStore(t)

SpecRace == InitRace /\ [][NextRace]_vars

\* The live handles on the control block c, the threads' Observers included.
\* A thread's Observer is live from the end of its construction to the
\* beginning of its destruction.
RaceHandles(c) ==
    Handles(c) + Cardinality({t \in Threads : thread[t].pc = c /\ thread[t].at = "idle"})

Quiescent == \A t \in Threads : thread[t].at = "idle"

\* C20: the reference counting is safe only when operations do not
\* interleave.  As long as no thread has stored over a count other than the
\* one it loaded (every ++ and -- so far ran as one atomic step), between
\* operations the count of the control block is the number of live handles
\* on it and the control block is allocated.  C20_Witness is the state the
\* interleaving of the loads and stores of two threads reaches: the count is
\* not the number of live handles.
C20_RefCountRace ==
    Quiescent /\ (\A t \in Threads : ~thread[t].raced) =>
        /\ cells[1].st = "live"
        /\ cells[1].ref_count = RaceHandles(1)

\* Between operations, the control block is allocated and its count is not
\* the number of live handles on it.
C20_Witness ==
    /\ Quiescent
    /\ cells[1].st = "live"
    /\ cells[1].ref_count # RaceHandles(1)
    /\ \E t \in Threads : thread[t].raced

====
